---- MODULE Spec2Model ----
(***************************************************************************)
(* Model of src/src/NeutOsc.h: the parameter set OscPars, the engine       *)
(* Oscillator (update, pars, trans, transvac, transmat, numtrans) and the  *)
(* free functions exportData and oscillate, driven by one single-threaded  *)
(* caller.                                                                  *)
(*                                                                         *)
(* Numbers.  A double that is only assigned, divided or multiplied once is *)
(* an exact fraction <<n, d>> (d = 0 encodes inf and NaN).  The marching   *)
(* distance of numtrans is accumulated, so it is an IEEE-754 binary64      *)
(* value with round-to-nearest-even at every addition.  sin, cos, exp and  *)
(* the 3x3 complex products are kept as terms over the values they read.   *)
(***************************************************************************)
EXTENDS Integers, Sequences, FiniteSets, TLC

VARIABLES op, U, Ud, H, V, saved, last, edits, upd, seq, file, pc, frame, calls

vars == <<op, U, Ud, H, V, saved, last, edits, upd, seq, file, pc, frame, calls>>

engine == <<op, U, Ud, H, V>>

(***************************************************************************)
(* Bounds of the model.                                                    *)
(***************************************************************************)
MaxCalls == 2

MaxSteps == 3

MaxNumLen == 13

(***************************************************************************)
(* Exact fractions.                                                        *)
(***************************************************************************)
Abs(n) == IF n < 0 THEN -n ELSE n

Sgn(n) == IF n < 0 THEN -1 ELSE IF n > 0 THEN 1 ELSE 0

RECURSIVE GCD(_, _)
GCD(a, b) == IF b = 0 THEN a ELSE GCD(b, a % b)

Norm(n, d) ==
  IF d = 0 THEN <<Sgn(n), 0>>
  ELSE LET g == GCD(Abs(n), Abs(d))
       IN  <<Sgn(d) * (n \div g), Abs(d) \div g>>

Whole(n) == <<n, 1>>

Zero == Whole(0)

RMul(x, y) == Norm(x[1] * y[1], x[2] * y[2])

RDiv(x, y) == Norm(x[1] * y[2], x[2] * y[1])

RIsZero(x) == x[2] # 0 /\ x[1] = 0

\* x < y for fractions, by comparing integer parts and then the reciprocals
\* of the remainders, so that no cross product is formed.
RECURSIVE FracLess(_, _, _, _)
FracLess(a, b, c, d) ==
  LET qa == a \div b
      qc == c \div d
      ra == a % b
      rc == c % d
  IN  IF qa # qc THEN qa < qc
      ELSE IF rc = 0 THEN FALSE
      ELSE IF ra = 0 THEN TRUE
      ELSE FracLess(d, rc, b, ra)

RLess(x, y) ==
  IF x[2] = 0 \/ y[2] = 0
  THEN /\ ~(x[2] = 0 /\ x[1] = 0)
       /\ ~(y[2] = 0 /\ y[1] = 0)
       /\ IF x[2] = 0 /\ y[2] = 0 THEN x[1] < y[1]
          ELSE IF x[2] = 0 THEN x[1] < 0
          ELSE y[1] > 0
  ELSE FracLess(x[1], x[2], y[1], y[2])

RLeq(x, y) == RLess(x, y) \/ (x = y /\ ~(x[2] = 0 /\ x[1] = 0))

(***************************************************************************)
(* OscPars.                                                                *)
(***************************************************************************)
Fields == {"nu", "anti", "E", "L", "th12", "th23", "th13", "Dm21sq", "Dm31sq", "dCP", "rho"}

\* dCP is held in units of 3.14159265 rad, every other field in the unit of
\* its declaration.
OscPars ==
  [nu |-> 0, anti |-> FALSE, E |-> <<7, 10>>, L |-> <<2314249, 100>>,
   th12 |-> <<5843, 10000>>, th23 |-> <<369, 500>>, th13 |-> <<37, 250>>,
   Dm21sq |-> <<3, 40000>>, Dm31sq |-> <<2457, 1000000>>, dCP |-> <<69, 50>>,
   rho |-> Zero]

OscParsEq(a, b) ==
  /\ a.th12 = b.th12 /\ a.th23 = b.th23 /\ a.th13 = b.th13
  /\ a.Dm21sq = b.Dm21sq /\ a.Dm31sq = b.Dm31sq /\ a.dCP = b.dCP

OscParsNeq(a, b) == ~OscParsEq(a, b)

(***************************************************************************)
(* Terms: the scalar entries of the rotation matrices and the 3x3 matrices *)
(* and 3-vectors built from them.  Rows and columns are 0..2 as in the     *)
(* source; At(m, r, c) reads entry (r, c).                                 *)
(***************************************************************************)
Num(x) == [f |-> "num", a |-> x, b |-> Zero]

Cos(t) == [f |-> "cos", a |-> t, b |-> Zero]

Sin(t) == [f |-> "sin", a |-> t, b |-> Zero]

NegSin(t) == [f |-> "-sin", a |-> t, b |-> Zero]

\* sin(t) * exp(If * p)
SinExp(t, p) == [f |-> "sin*exp(i.)", a |-> t, b |-> p]

\* -sin(t) * exp(If * p)
NegSinExp(t, p) == [f |-> "-sin*exp(i.)", a |-> t, b |-> p]

Idx == 0 .. 2

At(m, r, c) == m[r + 1][c + 1]

SetAt(m, r, c, x) == [m EXCEPT ![r + 1][c + 1] = x]

Unit(k) == [j \in 1 .. 3 |-> IF j = k + 1 THEN 1 ELSE 0]

ZeroMatrix == << <<Zero, Zero, Zero>>, <<Zero, Zero, Zero>>, <<Zero, Zero, Zero>> >>

\* Chirality, (int)op.anti * -2 + 1.
Chirality(anti) == (IF anti THEN 1 ELSE 0) * (-2) + 1

\* What update() assigns to U, Ud, H and V for parameter set o, when V
\* holds v before the call.
update(o, v) ==
  LET ch == Chirality(o.anti)
      U1 == << <<Num(Whole(1)), Num(Zero), Num(Zero)>>,
               <<Num(Zero), Cos(o.th23), Sin(o.th23)>>,
               <<Num(Zero), NegSin(o.th23), Cos(o.th23)>> >>
      U2 == << <<Cos(o.th13), Num(Zero), SinExp(o.th13, RMul(Whole(-ch), o.dCP))>>,
               <<Num(Zero), Num(Whole(1)), Num(Zero)>>,
               <<NegSinExp(o.th13, RMul(Whole(ch), o.dCP)), Num(Zero), Cos(o.th13)>> >>
      U3 == << <<Cos(o.th12), Sin(o.th12), Num(Zero)>>,
               <<NegSin(o.th12), Cos(o.th12), Num(Zero)>>,
               <<Num(Zero), Num(Zero), Num(Whole(1))>> >>
      u  == [product |-> <<U1, U2, U3>>]
  IN  [U  |-> u,
       Ud |-> [adjoint |-> u],
       H  |-> << <<Zero, Zero, Zero>>,
                 <<Zero, o.Dm21sq, Zero>>,
                 <<Zero, Zero, o.Dm31sq>> >>,
       \* V(0,0) in units of sqrt(2)*Gf*1e3/(1.672e-27*2) km^-1 per kg/m^3.
       V  |-> SetAt(v, 0, 0, RMul(Whole(ch), o.rho))]

(***************************************************************************)
(* The probability queries.  A result is the term                          *)
(* (U * ... * Ud * nu).cwiseAbs2() over the matrices the query multiplies. *)
(***************************************************************************)
conv == <<1267, 500>>

N == 128

\* The temporary -If*H/op.E*conv*op.L/n with its diagonal exponentiated
\* (n = 1 in transvac, which does not divide).
HexpOf(h, E, L, n) ==
  [expDiagOf |-> "-If*H/E*conv*L/n", m |-> h, E |-> E, c |-> conv, L |-> L, n |-> n]

\* The temporary -If*V*op.L/N with its diagonal exponentiated.
VexpOf(v, L, n) ==
  [expDiagOf |-> "-If*V*L/n", m |-> v, E |-> Whole(1), c |-> Whole(1), L |-> L, n |-> n]

\* transvac with the Hamiltonian rebuilt from the parameter set at the call.
transvacFromPars(o, u, ud, h) ==
  [alg |-> "transvac",
   abs2 |-> <<u, HexpOf(update(o, ZeroMatrix).H, o.E, o.L, 1), ud, Unit(o.nu)>>]

transvac(o, u, ud, h) ==
  LET nu   == Unit(o.nu)
      Hexp == HexpOf(h, o.E, o.L, 1)
  IN  [alg |-> "transvac", abs2 |-> <<u, Hexp, ud, nu>>]

transmat(o, u, ud, h, v) ==
  LET nu   == Unit(o.nu)
      Hexp == HexpOf(h, o.E, o.L, N)
      Vexp == VexpOf(v, o.L, N)
      Apow == [power |-> N, of |-> <<Hexp, ud, Vexp, u>>]
  IN  [alg |-> "transmat", abs2 |-> <<u, Apow, ud, nu>>]

\* trans with the vacuum algorithm for every density that is not positive.
transPositive(o, u, ud, h, v) ==
  IF RLeq(o.rho, Zero) THEN transvac(o, u, ud, h) ELSE transmat(o, u, ud, h, v)

trans(o, u, ud, h, v) ==
  IF RIsZero(o.rho) THEN transvac(o, u, ud, h) ELSE transmat(o, u, ud, h, v)

Query(q, o, u, ud, h, v) ==
  CASE q = "trans"    -> trans(o, u, ud, h, v)
    [] q = "transvac" -> transvac(o, u, ud, h)
    [] q = "transmat" -> transmat(o, u, ud, h, v)

Queries == {"trans", "transvac", "transmat"}

(***************************************************************************)
(* Construction.  Eigen leaves the coefficients of a default-constructed   *)
(* fixed-size matrix unset, and the constructor only runs update(), which  *)
(* writes V(0,0): the other entries of V keep what the storage held.       *)
(***************************************************************************)
\* What the storage of V may hold: zeros, or a value left in an off-diagonal
\* or in a diagonal entry.
UninitMatrix ==
  {ZeroMatrix, SetAt(ZeroMatrix, 0, 1, Whole(1)), SetAt(ZeroMatrix, 1, 1, Whole(1))}

NoQuery == [q |-> "none", val |-> [alg |-> "none"]]

NoFrame == [fn |-> "none"]

Init ==
  /\ op = OscPars
  /\ \E v \in UninitMatrix :
       LET d == update(OscPars, v)
       IN  U = d.U /\ Ud = d.Ud /\ H = d.H /\ V = d.V
  /\ saved = OscPars
  /\ last = NoQuery
  /\ edits = {}
  /\ upd = FALSE
  /\ seq = <<>>
  /\ file = [exists |-> FALSE, header |-> "", lines |-> <<>>]
  /\ pc = "idle"
  /\ frame = NoFrame
  /\ calls = 0

(***************************************************************************)
(* The caller: edits through pars(), update(), and the one-shot queries.   *)
(***************************************************************************)
EditValues(f) ==
  CASE f = "nu"     -> {0, 1, 2}
    [] f = "anti"   -> BOOLEAN
    [] f = "E"      -> {OscPars.E, Whole(2)}
    [] f = "L"      -> {OscPars.L, Whole(295)}
    [] f = "th12"   -> {OscPars.th12, Zero}
    [] f = "th23"   -> {OscPars.th23, Zero}
    [] f = "th13"   -> {OscPars.th13, Zero}
    [] f = "Dm21sq" -> {OscPars.Dm21sq, Zero}
    [] f = "Dm31sq" -> {OscPars.Dm31sq, Whole(-1)}
    [] f = "dCP"    -> {OscPars.dCP, Zero}
    [] f = "rho"    -> {Zero, Whole(2600), Whole(-2600)}

CanCall == pc = "idle" /\ calls < MaxCalls

\* osc.pars().f = v
Pars(f, v) ==
  /\ CanCall
  /\ v # op[f]
  /\ op' = [op EXCEPT ![f] = v]
  /\ edits' = edits \cup {f}
  /\ calls' = calls + 1
  /\ UNCHANGED <<U, Ud, H, V, saved, last, upd, seq, file, pc, frame>>

\* osc.update(); the caller keeps a copy of the parameter set it updated for.
Update ==
  /\ CanCall
  /\ LET d == update(op, V)
     IN  U' = d.U /\ Ud' = d.Ud /\ H' = d.H /\ V' = d.V
  /\ saved' = op
  /\ upd' = TRUE
  /\ calls' = calls + 1
  /\ UNCHANGED <<op, edits, last, seq, file, pc, frame>>

\* last = osc.q(); edits and upd restart: they tell what was edited and
\* whether update() ran since the result in last was returned.
Call(q) ==
  /\ pc = "idle"
  /\ last' = [q |-> q, val |-> Query(q, op, U, Ud, H, V)]
  /\ edits' = {}
  /\ upd' = FALSE
  /\ UNCHANGED <<op, U, Ud, H, V, saved, seq, file, pc, frame, calls>>

Trans == Call("trans")

\* transvac exponentiating the member H instead of a temporary.
TransVacInPlace ==
  /\ pc = "idle"
  /\ last' = [q |-> "transvac", val |-> Query("transvac", op, U, Ud, H, V)]
  /\ H' = HexpOf(H, op.E, op.L, 1)
  /\ edits' = {}
  /\ upd' = FALSE
  /\ UNCHANGED <<op, U, Ud, V, saved, seq, file, pc, frame, calls>>

TransVac == Call("transvac")

TransMat == Call("transmat")

(***************************************************************************)
(* IEEE-754 binary64 values of the marching loop.  A double whose          *)
(* magnitude is m * 2^-56 with m < 2^58 is [neg, hi, lo] with              *)
(* m = hi * 2^29 + lo; a sum is rounded to 53 significant bits, to nearest *)
(* and to even on a tie.                                                   *)
(***************************************************************************)
RECURSIVE Pow2(_)
Pow2(k) == IF k = 0 THEN 1 ELSE 2 * Pow2(k - 1)

Limb == Pow2(29)

Exact53 == Pow2(24)

\* The number of bits by which hi * 2^29 + lo exceeds 53 bits.
RECURSIVE Excess(_, _)
Excess(hi, s) == IF hi < Exact53 * Pow2(s) THEN s ELSE Excess(hi, s + 1)

Round53(hi, lo) ==
  LET s    == Excess(hi, 0)
      r    == lo % Pow2(s)
      half == Pow2(s) \div 2
      odd  == (lo \div Pow2(s)) % 2 = 1
      up   == s > 0 /\ (r > half \/ (r = half /\ odd))
      lo2  == lo - r + (IF up THEN Pow2(s) ELSE 0)
  IN  IF lo2 >= Limb THEN <<hi + 1, lo2 - Limb>> ELSE <<hi, lo2>>

Dbl(neg, m) == [neg |-> neg /\ m # <<0, 0>>, hi |-> m[1], lo |-> m[2]]

MagLess(a, b) == a.hi < b.hi \/ (a.hi = b.hi /\ a.lo < b.lo)

MagAdd(a, b) ==
  IF a.lo + b.lo >= Limb THEN <<a.hi + b.hi + 1, a.lo + b.lo - Limb>>
  ELSE <<a.hi + b.hi, a.lo + b.lo>>

\* a - b for magnitudes with b <= a.
MagSub(a, b) ==
  IF a.lo < b.lo THEN <<a.hi - b.hi - 1, a.lo + Limb - b.lo>>
  ELSE <<a.hi - b.hi, a.lo - b.lo>>

DblAdd(a, b) ==
  IF a.neg = b.neg
  THEN LET m == MagAdd(a, b) IN Dbl(a.neg, Round53(m[1], m[2]))
  ELSE IF MagLess(a, b)
       THEN LET m == MagSub(b, a) IN Dbl(b.neg, Round53(m[1], m[2]))
       ELSE LET m == MagSub(a, b) IN Dbl(a.neg, Round53(m[1], m[2]))

DblLess(a, b) ==
  IF a.neg # b.neg THEN a.neg
  ELSE IF a.neg THEN MagLess(b, a) ELSE MagLess(a, b)

DblZero == Dbl(FALSE, <<0, 0>>)

\* 0.1, 0.5 and 1.0 as binary64.
DblTenth == Dbl(FALSE, <<13421772, 429496730>>)

DblHalf == Dbl(FALSE, <<Pow2(26), 0>>)

DblOne == Dbl(FALSE, <<Pow2(27), 0>>)

DblNeg(a) == Dbl(~a.neg, <<a.hi, a.lo>>)

(***************************************************************************)
(* numtrans(nu1, E, L, step).                                              *)
(***************************************************************************)
NumFlavours == {0, 2}

NumEnergies == {OscPars.E}

NumBaselines == {DblNeg(DblOne), DblZero, DblHalf, DblOne}

NumStepSizes == {DblNeg(DblTenth), DblZero, DblTenth, DblHalf}

\* The mass-basis amplitude after n updates nu += -If*H*conv*step/E*nu of
\* Ud*nu.
Amplitude(ud, nu1, h, E, step, n) ==
  [euler |-> n, start |-> <<ud, Unit(nu1)>>,
   by |-> [m |-> h, c |-> conv, step |-> step, E |-> E]]

Euler(nu) == [nu EXCEPT !.euler = @ + 1]

Sample(u, nu) == [alg |-> "numtrans", abs2 |-> <<u, nu>>]

NumCond(l, L) == DblLess(l, L)

NumTrans(nu1, E, L, step) ==
  /\ CanCall
  /\ LET nu == Amplitude(Ud, nu1, H, E, step, 0)
     IN  frame' = [fn |-> "numtrans", nu1 |-> nu1, E |-> E, L |-> L, step |-> step,
                   nu |-> nu, l |-> DblZero, result |-> <<Sample(U, nu)>>]
  /\ pc' = "num_for"
  /\ calls' = calls + 1
  /\ UNCHANGED <<op, U, Ud, H, V, saved, last, edits, upd, seq, file>>

\* The loop body without the increment of l.
NumStepNoAdvance ==
  /\ pc = "num_for"
  /\ NumCond(frame.l, frame.L)
  /\ Len(frame.result) < MaxNumLen
  /\ LET nu == Euler(frame.nu)
     IN  frame' = [frame EXCEPT !.nu = nu,
                                !.result = Append(@, Sample(U, nu))]
  /\ UNCHANGED <<op, U, Ud, H, V, saved, last, edits, upd, seq, file, pc, calls>>

\* One pass of the loop body and its increment.
NumStep ==
  /\ pc = "num_for"
  /\ NumCond(frame.l, frame.L)
  /\ Len(frame.result) < MaxNumLen
  /\ LET nu == Euler(frame.nu)
     IN  frame' = [frame EXCEPT !.nu = nu,
                                !.result = Append(@, Sample(U, nu)),
                                !.l = DblAdd(@, frame.step)]
  /\ UNCHANGED <<op, U, Ud, H, V, saved, last, edits, upd, seq, file, pc, calls>>

NumExit ==
  /\ pc = "num_for"
  /\ ~NumCond(frame.l, frame.L)
  /\ pc' = "num_return"
  /\ UNCHANGED <<op, U, Ud, H, V, saved, last, edits, upd, seq, file, frame, calls>>

NumReturn ==
  /\ pc = "num_return"
  /\ seq' = frame.result
  /\ frame' = NoFrame
  /\ pc' = "idle"
  /\ UNCHANGED <<op, U, Ud, H, V, saved, last, edits, upd, file, calls>>

(***************************************************************************)
(* oscillate(osc, par, numsteps), with par bound to a double field of      *)
(* osc.pars().                                                             *)
(***************************************************************************)
SweepFields == {"L", "rho"}

StepCounts == -1 .. MaxSteps

\* A default-constructed Eigen::Vector3d.
UninitVector == [alg |-> "uninitialized", abs2 |-> <<>>]

\* Lines 175-177; std::vector's constructor throws on a negative count.
\* frame.entry remembers the parameter set the call was entered with.
Oscillate(par, numsteps) ==
  /\ CanCall
  /\ LET initial == op[par]
         step    == RDiv(initial, Whole(numsteps))
     IN  frame' = [fn |-> "oscillate", par |-> par, numsteps |-> numsteps,
                   initial |-> initial, step |-> step,
                   result |-> [k \in 1 .. numsteps |-> UninitVector],
                   i |-> 0, entry |-> op]
  /\ pc' = IF numsteps < 0 THEN "threw" ELSE "osc_for"
  /\ calls' = calls + 1
  /\ UNCHANGED <<op, U, Ud, H, V, saved, last, edits, upd, seq, file>>

OscCond(i, result) == i < Len(result)

\* par = i*step
OscSet ==
  /\ pc = "osc_for"
  /\ OscCond(frame.i, frame.result)
  /\ op' = [op EXCEPT ![frame.par] = RMul(Whole(frame.i), frame.step)]
  /\ edits' = edits \cup {frame.par}
  /\ pc' = "osc_update"
  /\ UNCHANGED <<U, Ud, H, V, saved, last, upd, seq, file, frame, calls>>

\* The sweep without its osc.update().
OscUpdateSkipped ==
  /\ pc = "osc_update"
  /\ pc' = "osc_trans"
  /\ UNCHANGED <<op, U, Ud, H, V, saved, last, edits, upd, seq, file, frame, calls>>

\* osc.update()
OscUpdate ==
  /\ pc = "osc_update"
  /\ LET d == update(op, V)
     IN  U' = d.U /\ Ud' = d.Ud /\ H' = d.H /\ V' = d.V
  /\ saved' = op
  /\ upd' = TRUE
  /\ pc' = "osc_trans"
  /\ UNCHANGED <<op, last, edits, seq, file, frame, calls>>

\* result[i] = osc.trans(); ++i
OscTrans ==
  /\ pc = "osc_trans"
  /\ frame' = [frame EXCEPT !.result[frame.i + 1] = trans(op, U, Ud, H, V),
                            !.i = @ + 1]
  /\ pc' = "osc_for"
  /\ UNCHANGED <<op, U, Ud, H, V, saved, last, edits, upd, seq, file, calls>>

\* The sweep leaving par at its last value.
OscNoReset ==
  /\ pc = "osc_for"
  /\ ~OscCond(frame.i, frame.result)
  /\ pc' = "osc_return"
  /\ UNCHANGED <<op, U, Ud, H, V, saved, last, edits, upd, seq, file, frame, calls>>

\* par = initial
OscReset ==
  /\ pc = "osc_for"
  /\ ~OscCond(frame.i, frame.result)
  /\ op' = [op EXCEPT ![frame.par] = frame.initial]
  /\ edits' = edits \cup {frame.par}
  /\ pc' = "osc_return"
  /\ UNCHANGED <<U, Ud, H, V, saved, last, upd, seq, file, frame, calls>>

OscReturn ==
  /\ pc = "osc_return"
  /\ seq' = frame.result
  /\ frame' = NoFrame
  /\ pc' = "idle"
  /\ UNCHANGED <<op, U, Ud, H, V, saved, last, edits, upd, file, calls>>

(***************************************************************************)
(* exportData(probs, final).                                               *)
(***************************************************************************)
Precision == 6

RECURSIVE Pow10(_)
Pow10(k) == IF k = 0 THEN 1 ELSE 10 * Pow10(k - 1)

\* The least k with a/d * 10^k >= 10^(Precision - 1), for 0 < a/d < 10^Precision.
RECURSIVE Digits(_, _, _)
Digits(a, d, k) ==
  IF (a * Pow10(k)) \div d >= Pow10(Precision - 1) THEN k ELSE Digits(a, d, k + 1)

\* operator<<(double) of a default stream: the value rounded to Precision
\* significant decimal digits, as the number the written text denotes.
FormatG(x) ==
  IF x[2] = 0 \/ x[1] = 0 THEN x
  ELSE LET a  == Abs(x[1])
           d  == x[2]
           k  == Digits(a, d, 0)
           m  == (a * Pow10(k)) \div d
           r  == (a * Pow10(k)) % d
           up == 2 * r > d \/ (2 * r = d /\ m % 2 = 1)
       IN  Norm(Sgn(x[1]) * (IF up THEN m + 1 ELSE m), Pow10(k))

\* probs[i](c) as written by operator<<.
Written(v, c) == [precision |-> Precision, coeff |-> c, of |-> v]

Header == "x,e,mu,tau"

\* A line whose x counts from 1.
ExportLineFromOne(probs, final, i) ==
  [x   |-> FormatG(RMul(Whole(i + 1), RDiv(final, Whole(Len(probs))))),
   e   |-> Written(probs[i + 1], 0),
   mu  |-> Written(probs[i + 1], 1),
   tau |-> Written(probs[i + 1], 2)]

ExportLine(probs, final, i) ==
  [x   |-> FormatG(RMul(Whole(i), RDiv(final, Whole(Len(probs))))),
   e   |-> Written(probs[i + 1], 0),
   mu  |-> Written(probs[i + 1], 1),
   tau |-> Written(probs[i + 1], 2)]

exportData(probs, final) ==
  [exists |-> TRUE, header |-> Header,
   lines |-> [k \in 1 .. Len(probs) |-> ExportLine(probs, final, k - 1)]]

Finals == {Whole(-2), Whole(1)}

\* The whole call; opened is the outcome of ofile.is_open().
ExportData(final, opened) ==
  /\ pc = "idle"
  /\ frame' = [fn |-> "exportData", probs |-> seq, final |-> final, opened |-> opened]
  /\ file' = IF opened THEN exportData(seq, final) ELSE file
  /\ pc' = "exp_return"
  /\ UNCHANGED <<op, U, Ud, H, V, saved, last, edits, upd, seq, calls>>

ExpReturn ==
  /\ pc = "exp_return"
  /\ frame' = NoFrame
  /\ pc' = "idle"
  /\ UNCHANGED <<op, U, Ud, H, V, saved, last, edits, upd, seq, file, calls>>

(***************************************************************************)
(* The programs.  A caller of the engine edits, updates and queries; a     *)
(* caller of every query also edits a splitting and updates; a caller of   *)
(* numtrans alone; a caller of oscillate edits the fields it sweeps and    *)
(* exports what it gets.                                                   *)
(***************************************************************************)
Next ==
  \/ \E f \in Fields : \E v \in EditValues(f) : Pars(f, v)
  \/ Update
  \/ Trans
  \/ TransVac
  \/ TransMat

NumNext ==
  \/ \E v \in EditValues("Dm21sq") : Pars("Dm21sq", v)
  \/ Update
  \/ Trans
  \/ TransVac
  \/ TransMat
  \/ \E nu1 \in NumFlavours, E \in NumEnergies, L \in NumBaselines, step \in NumStepSizes :
       NumTrans(nu1, E, L, step)
  \/ NumStep
  \/ NumExit
  \/ NumReturn

MarchNext ==
  \/ \E nu1 \in NumFlavours, E \in NumEnergies, L \in NumBaselines, step \in NumStepSizes :
       NumTrans(nu1, E, L, step)
  \/ NumStep
  \/ NumExit
  \/ NumReturn

SweepNext ==
  \/ \E f \in SweepFields : \E v \in EditValues(f) : Pars(f, v)
  \/ \E par \in SweepFields, numsteps \in StepCounts : Oscillate(par, numsteps)
  \/ OscSet
  \/ OscUpdate
  \/ OscTrans
  \/ OscReset
  \/ OscReturn
  \/ \E final \in Finals, opened \in BOOLEAN : ExportData(final, opened)
  \/ ExpReturn

Spec == Init /\ [][Next]_vars

NumSpec == Init /\ [][NumNext]_vars

\* numtrans is sequential code: its loop runs on while its condition holds,
\* leaves when it fails, and the call then returns.
MarchSpec ==
  Init /\ [][MarchNext]_vars /\ WF_vars(NumStep) /\ WF_vars(NumExit) /\ WF_vars(NumReturn)

SweepSpec == Init /\ [][SweepNext]_vars

(***************************************************************************)
(* C1.  An edit through pars() takes effect only at the next update().     *)
(***************************************************************************)
Stored == [U |-> U, Ud |-> Ud, H |-> H, V |-> V]

\* What query q returns in the current state.
Now(q) == Query(q, op, U, Ud, H, V)

\* The fields that only update() reads.
DerivedFields == {"anti", "th12", "th23", "th13", "Dm21sq", "Dm31sq", "dCP"}

\* C1 as claimed: after a query, whatever fields are edited, the same query
\* returns the same result as long as update() has not run.
C1_EveryEditWaitsForUpdate ==
  (last.q # "none" /\ ~upd) => Now(last.q) = last.val

\* C1 as amended: after a query, edits to anti, the angles, the splittings
\* and the CP phase leave the result of the same query unchanged as long as
\* update() has not run.
C1_DerivedEditsWaitForUpdate ==
  (last.q # "none" /\ ~upd /\ edits \subseteq DerivedFields) => Now(last.q) = last.val

C1_Witness ==
  /\ last.q # "none" /\ ~upd
  /\ edits # {} /\ edits \subseteq DerivedFields
  /\ update(op, V) # Stored

(***************************************************************************)
(* C2.  trans() is transmat() when rho is not 0 and transvac() when it is. *)
(***************************************************************************)
\* C2: a result of trans() taken in the current state is the result of
\* transmat() if op.rho is not 0 and of transvac() if it is 0.
C2_Dispatch ==
  (last.q = "trans" /\ edits = {} /\ ~upd) =>
    /\ op.rho # Zero => last.val = transmat(op, U, Ud, H, V) /\ last.val.alg = "transmat"
    /\ op.rho = Zero => last.val = transvac(op, U, Ud, H) /\ last.val.alg = "transvac"

C2_Witness ==
  /\ last.q = "trans" /\ edits = {} /\ ~upd
  /\ RLess(op.rho, Zero)
  /\ op # OscPars
  /\ last.val.alg = "transmat"

(***************************************************************************)
(* C3.  Parameter sets that compare equal derive the same U, H and V.      *)
(***************************************************************************)
\* C3: when the parameter set compares equal to the one update() last ran
\* for, update() would derive the stored U, H and V again.
C3_EqualSetsDeriveEqual ==
  OscParsEq(op, saved) =>
    LET d == update(op, V) IN d.U = U /\ d.H = H /\ d.V = V

QueryStep ==
  \/ Trans
  \/ TransVac
  \/ TransMat
  \/ \E nu1 \in NumFlavours, E \in NumEnergies, L \in NumBaselines, step \in NumStepSizes :
       NumTrans(nu1, E, L, step)
  \/ NumStep
  \/ NumExit
  \/ NumReturn

\* C6: a step of trans, transvac, transmat or numtrans changes none of op,
\* U, Ud, H, V, and the result the caller holds afterwards is the one the
\* query returns from that unchanged state.
C6_QueriesChangeNothing ==
  [][QueryStep =>
       /\ UNCHANGED engine
       /\ (last'.q # "none" /\ edits' = {} /\ ~upd') =>
            last'.val = Query(last'.q, op', U', Ud', H', V')]_vars

C6_Witness ==
  /\ pc = "num_return"
  /\ Len(frame.result) > 2
  /\ last.q = "transmat" /\ edits = {} /\ ~upd

(***************************************************************************)
(* C7.  numtrans returns the initial sample and one sample per multiple of *)
(* step below L.                                                           *)
(***************************************************************************)
\* The number of exact multiples 0, step, 2*step, ... below L, for step > 0.
RECURSIVE MultiplesBelow(_, _, _)
MultiplesBelow(acc, step, L) ==
  IF DblLess(acc, L)
  THEN 1 + MultiplesBelow(Dbl(FALSE, MagAdd(acc, step)), step, L)
  ELSE 0

\* C7: with step > 0, numtrans returns 1 + k samples, k the number of
\* multiples of step below L, sample j being taken after j Euler updates.
C7_OneSamplePerMultiple ==
  (pc = "num_return" /\ DblLess(DblZero, frame.step)) =>
    /\ Len(frame.result) = 1 + MultiplesBelow(DblZero, frame.step, frame.L)
    /\ \A j \in 1 .. Len(frame.result) :
         frame.result[j] =
           Sample(U, Amplitude(Ud, frame.nu1, H, frame.E, frame.step, j - 1))

(***************************************************************************)
(* C10.  numtrans terminates exactly when step > 0 or L <= 0.              *)
(***************************************************************************)
Marches(f) == DblLess(DblZero, f.step) \/ ~DblLess(DblZero, f.L)

Swept(f, i) ==
  LET o == [f.entry EXCEPT ![f.par] = RMul(Whole(i), RDiv(f.entry[f.par], Whole(f.numsteps)))]
      d == update(o, V)
  IN  trans(o, d.U, d.Ud, d.H, d.V)

\* C4: the sweep queries step i with par = i*step set and updated for, fills
\* the results in increasing i, and returns numsteps of them, result i
\* being the one of step i.
C4_SweepOrder ==
  /\ pc = "osc_trans" =>
       /\ op[frame.par] = RMul(Whole(frame.i), frame.step)
       /\ frame.i = 0 => op[frame.par] = Zero
       /\ Stored = update(op, V)
  /\ pc \in {"osc_for", "osc_update", "osc_trans", "osc_return"} =>
       /\ Len(frame.result) = frame.numsteps
       /\ \A k \in 1 .. frame.numsteps :
            frame.result[k] = IF k <= frame.i THEN Swept(frame, k - 1) ELSE UninitVector
  /\ pc = "osc_return" => frame.i = frame.numsteps

C4_Witness ==
  /\ pc = "osc_return"
  /\ frame.par = "rho"
  /\ frame.numsteps = 3
  /\ frame.result[1].alg = "transvac"
  /\ frame.result[3].alg = "transmat"
  /\ frame.result[2] # frame.result[3]

(***************************************************************************)
(* C5.  oscillate leaves the parameter set as it found it.                 *)
(***************************************************************************)
\* C5: when oscillate returns, and when it throws, every field of the
\* parameter set holds the value it had at the call.
C5_SweepRestores ==
  pc \in {"osc_return", "threw"} => op = frame.entry

C5_Witness ==
  /\ pc = "osc_return"
  /\ frame.numsteps >= 2
  /\ frame.initial # RMul(Whole(frame.numsteps - 1), frame.step)
  /\ op[frame.par] = frame.initial

(***************************************************************************)
(* C8.  exportData writes the header and one line per vector.              *)
(***************************************************************************)
Lines(f) ==
  /\ file.exists
  /\ file.header = "x,e,mu,tau"
  /\ Len(file.lines) = Len(f.probs)
  /\ \A k \in 1 .. Len(f.probs) :
       /\ file.lines[k].x = FormatG(RMul(Whole(k - 1), RDiv(f.final, Whole(Len(f.probs)))))
       /\ file.lines[k].e = Written(f.probs[k], 0)
       /\ file.lines[k].mu = Written(f.probs[k], 1)
       /\ file.lines[k].tau = Written(f.probs[k], 2)

NonDecreasing == \A k \in 1 .. Len(file.lines) - 1 : RLeq(file.lines[k].x, file.lines[k + 1].x)

NonIncreasing == \A k \in 1 .. Len(file.lines) - 1 : RLeq(file.lines[k + 1].x, file.lines[k].x)

\* C8 as claimed: after a call that opened the file, the file holds the
\* header and one line per vector in order, x of line i being i*(final/N)
\* as the stream writes it, and x never decreases down the file.
C8_LinesAndIncreasingX ==
  (pc = "exp_return" /\ frame.opened) => Lines(frame) /\ NonDecreasing

\* C8 as amended: the same lines, with x never decreasing when final >= 0
\* and never increasing when final <= 0.
C8_LinesAndMonotoneX ==
  (pc = "exp_return" /\ frame.opened) =>
    /\ Lines(frame)
    /\ RLeq(Zero, frame.final) => NonDecreasing
    /\ RLeq(frame.final, Zero) => NonIncreasing

C8_Witness ==
  /\ pc = "exp_return" /\ frame.opened
  /\ Len(frame.probs) = 3
  /\ frame.final = Whole(1)
  /\ file.lines[2].x = <<333333, 1000000>>
  /\ file.lines[3].x = <<666667, 1000000>>

====
